---- MODULE Spec2Model ----
(***************************************************************************)
(* Model of the two rate limiters of ratelimiter-example:                  *)
(*   SlidingWindowRateLimiter (sliding-window-counter.go) and              *)
(*   LeakyBucketRateLimiter   (the leaky bucket program).                  *)
(*                                                                         *)
(* Time.  A time.Time is an integer number of ticks after the zero         *)
(* instant time.Time{}; one tick is 1/TicksPerSecond s.  Unix() of the     *)
(* source counts whole seconds from 1970, a whole number of seconds after  *)
(* the zero instant, so the bucket keys of the model are the keys of the   *)
(* source shifted by one constant.  A time.Duration is a number of ticks.  *)
(* Request times are at or after the zero instant, where the saturating    *)
(* Time.Sub of the first leaky-bucket call is positive or 0 and drains a   *)
(* fill level that is 0 already.                                           *)
(*                                                                         *)
(* Floating point.  The fill level `current` of the leaky bucket only      *)
(* ever holds multiples of 1/windowDuration, so the model stores           *)
(* current * windowDuration as an integer.  The request times and the      *)
(* window durations of Spec are multiples of half a second with a window   *)
(* that is a power of two half-seconds, for which every float64            *)
(* operation of the source is exact.                                       *)
(***************************************************************************)
EXTENDS Integers, Sequences, FiniteSets

VARIABLES
    rate,              \* SlidingWindowRateLimiter.rate
    swWindowDuration,  \* SlidingWindowRateLimiter.windowDuration (ticks)
    requests,          \* SlidingWindowRateLimiter.requests: second -> count
    capacity,          \* LeakyBucketRateLimiter.capacity
    lbWindowDuration,  \* LeakyBucketRateLimiter.windowDuration (ticks)
    lastUpdate,        \* LeakyBucketRateLimiter.lastUpdate (ticks)
    current,           \* LeakyBucketRateLimiter.current * lbWindowDuration
    calls,             \* history: the requestTime of every call, in order
    swResults,         \* history: what each sliding-window call returned
    lbResults,         \* history: what each leaky-bucket call returned
    lbTested,          \* history: the value of lb.current (scaled) that the
                       \* last leaky-bucket call compared with capacity
    replica,           \* a second SlidingWindowRateLimiter of the same rate
                       \* and windowDuration: its requests, what its calls
                       \* returned, and how many keys the last scan visited
    callers,           \* the goroutines that call AllowRequest on the one
                       \* sliding-window limiter: where each stands in the
                       \* call, its requestTime and its local currentCount
    exclusion          \* whether the callers hold a mutex around each call

swVars == <<rate, swWindowDuration, requests, swResults>>
lbVars == <<capacity, lbWindowDuration, lastUpdate, current, lbResults, lbTested>>
concVars == <<replica, callers, exclusion>>
vars == <<rate, swWindowDuration, requests, capacity, lbWindowDuration,
          lastUpdate, current, calls, swResults, lbResults, lbTested,
          replica, callers, exclusion>>

----------------------------------------------------------------------------
(* Units and bounds *)

\* time.Second in ticks: a tick is a tenth of a second.
TicksPerSecond == 10

HalfSecond == TicksPerSecond \div 2

\* rate ranges over 0..MaxRate.
MaxRate == 3

\* windowDuration ranges over HalfSecond * 2^k, k in 0..MaxWindowExp.
MaxWindowExp == 2

\* Spec: request times are the multiples of half a second up to
\* MaxHalfSeconds half-seconds, in any order, MaxCalls calls at most.
MaxHalfSeconds == 4
MaxCalls == 5

\* SpecFine: request times are all ticks up to MaxFineTime, MaxFineCalls
\* calls at most, rate in 0..MaxFineRate.
MaxFineTime == 21
MaxFineCalls == 3
MaxFineRate == 1

\* SpecScan: MaxScanCalls calls at most.
MaxScanCalls == 4

\* SpecConcurrent: two goroutines, MaxConcurrentCalls calls at most, rate in
\* 0..MaxConcurrentRate.
MaxConcurrentCalls == 4
MaxConcurrentRate == 2

RECURSIVE Pow2(_)
Pow2(k) == IF k = 0 THEN 1 ELSE 2 * Pow2(k - 1)

Rates == 0..MaxRate
FineRates == 0..MaxFineRate
Windows == {HalfSecond * Pow2(k) : k \in 0..MaxWindowExp}
Times == {HalfSecond * k : k \in 0..MaxHalfSeconds}
FineTimes == 0..MaxFineTime
CallerIds == {1, 2}
ConcurrentRates == 0..MaxConcurrentRate

----------------------------------------------------------------------------
(* package time *)

\* Time.Unix(): whole seconds, rounded down (the representation keeps
\* 0 <= nsec < 1e9), also for an instant before the origin.
Unix(t) == t \div TicksPerSecond

\* Time.Truncate(d): t rounded down to a multiple of d since the zero time.
Truncate(t, d) == t - (t % d)

\* Time.Add(d).
Add(t, d) == t + d

\* Time.Sub(u), in ticks.
Sub(t, u) == t - u

\* The zero value of time.Time, the initial LeakyBucketRateLimiter.lastUpdate.
ZeroTime == 0

----------------------------------------------------------------------------
(* sliding-window-counter.go *)

\* NewSlidingWindowRateLimiter: make(map[int64]int).
EmptyRequests == [timestamp \in {} |-> 0]

\* requestTimeSecond := requestTime.Truncate(time.Second).Unix()
requestTimeSecond(requestTime) == Unix(Truncate(requestTime, TicksPerSecond))

\* startOfWindow := requestTime.Add(-rl.windowDuration).Unix()
startOfWindowForward(requestTime, windowDuration) ==
    Unix(Add(requestTime, windowDuration))
startOfWindow(requestTime, windowDuration) == Unix(Add(requestTime, -windowDuration))

\* if timestamp < startOfWindow { delete(rl.requests, timestamp) }
ExpiredInclusive(timestamp, start) == timestamp <= start
ExpiredNever(timestamp, start) == FALSE
Expired(timestamp, start) == timestamp < start

\* The map after the loop: every expired key deleted.
Purge(reqs, start) ==
    [timestamp \in {ts \in DOMAIN reqs : ~Expired(ts, start)} |-> reqs[timestamp]]

RECURSIVE SumCounts(_, _)
SumCounts(reqs, keys) ==
    IF keys = {} THEN 0
    ELSE LET timestamp == CHOOSE ts \in keys : TRUE
         IN reqs[timestamp] + SumCounts(reqs, keys \ {timestamp})

\* currentCount after the loop: the sum of the counts that were not deleted.
\* The sum does not depend on the order in which range visits the map.
currentCountAll(reqs, start) == SumCounts(reqs, DOMAIN reqs)
currentCount(reqs, start) ==
    SumCounts(reqs, {ts \in DOMAIN reqs : ~Expired(ts, start)})

\* if currentCount < rl.rate
WindowNotFullInclusive(count, r) == count <= r
WindowNotFull(count, r) == count < r

\* rl.requests[requestTimeSecond]++ : a missing key reads as 0.
Increment(reqs, second) ==
    [timestamp \in DOMAIN reqs \cup {second} |->
        IF timestamp = second
        THEN (IF second \in DOMAIN reqs THEN reqs[second] ELSE 0) + 1
        ELSE reqs[timestamp]]

\* func (rl *SlidingWindowRateLimiter) AllowRequest(requestTime time.Time) bool
SWAllowRequest(requestTime) ==
    LET second == requestTimeSecond(requestTime)
        start == startOfWindow(requestTime, swWindowDuration)
    IN  /\ IF WindowNotFull(currentCount(requests, start), rate)
           THEN /\ requests' = Increment(Purge(requests, start), second)
                /\ swResults' = Append(swResults, TRUE)
           ELSE /\ requests' = Purge(requests, start)
                /\ swResults' = Append(swResults, FALSE)
        /\ UNCHANGED <<rate, swWindowDuration>>

----------------------------------------------------------------------------
(* the leaky bucket program *)

\* math.Ceil of n/d, d > 0.
Ceil(n, d) == -((-n) \div d)

\* elapsed := requestTime.Sub(lb.lastUpdate).Seconds() / lb.windowDuration.Seconds()
\* lb.current -= elapsed * float64(lb.capacity)
\* Scaled by windowDuration: current*W - (dt/W)*capacity*W.
LeakNothing(cur, requestTime, last, cap) == cur
LeakTwice(cur, requestTime, last, cap) == cur - 2 * Sub(requestTime, last) * cap
Leak(cur, requestTime, last, cap) == cur - Sub(requestTime, last) * cap

\* if lb.current < 0 { lb.current = 0 }
ClampNone(cur) == cur
Clamp(cur) == IF cur < 0 THEN 0 ELSE cur

\* if math.Ceil(lb.current) < lb.capacity
BucketNotFullInclusive(cur, cap, windowDuration) == Ceil(cur, windowDuration) <= cap
BucketNotFull(cur, cap, windowDuration) == Ceil(cur, windowDuration) < cap

\* func (lb *LeakyBucketRateLimiter) AllowRequest(requestTime time.Time) bool
LBAllowRequestStampOnAdmit(requestTime) ==
    LET leaked == Clamp(Leak(current, requestTime, lastUpdate, capacity))
    IN  /\ lbTested' = leaked
        /\ IF BucketNotFull(leaked, capacity, lbWindowDuration)
           THEN /\ current' = leaked + lbWindowDuration
                /\ lastUpdate' = requestTime
                /\ lbResults' = Append(lbResults, TRUE)
           ELSE /\ current' = leaked
                /\ lastUpdate' = lastUpdate
                /\ lbResults' = Append(lbResults, FALSE)
        /\ UNCHANGED <<capacity, lbWindowDuration>>
LBAllowRequest(requestTime) ==
    LET leaked == Clamp(Leak(current, requestTime, lastUpdate, capacity))
    IN  /\ lastUpdate' = requestTime
        /\ lbTested' = leaked
        /\ IF BucketNotFull(leaked, capacity, lbWindowDuration)
           THEN /\ current' = leaked + lbWindowDuration
                /\ lbResults' = Append(lbResults, TRUE)
           ELSE /\ current' = leaked
                /\ lbResults' = Append(lbResults, FALSE)
        /\ UNCHANGED <<capacity, lbWindowDuration>>

----------------------------------------------------------------------------
(* The two programs on one input *)

\* NewSlidingWindowRateLimiter(r, w) and NewLeakyBucketRateLimiter(r, w).
Construct(r, w) ==
    /\ rate = r
    /\ swWindowDuration = w
    /\ requests = EmptyRequests
    /\ capacity = r
    /\ lbWindowDuration = w
    /\ lastUpdate = ZeroTime
    /\ current = 0
    /\ calls = <<>>
    /\ swResults = <<>>
    /\ lbResults = <<>>
    /\ lbTested = 0
    /\ replica = [requests |-> EmptyRequests, results |-> <<>>, visited |-> 0]
    /\ callers = [id \in CallerIds |->
                    [pc |-> "idle", requestTime |-> 0, currentCount |-> 0]]

Init == \E r \in Rates, w \in Windows : Construct(r, w) /\ exclusion = TRUE

\* main: one line of the input, given to AllowRequest of either program
\* (the README runs both programs on the same test case).
Request(requestTime) ==
    /\ Len(calls) < MaxCalls
    /\ calls' = Append(calls, requestTime)
    /\ SWAllowRequest(requestTime)
    /\ LBAllowRequest(requestTime)
    /\ UNCHANGED concVars

Next == \E requestTime \in Times : Request(requestTime)

Spec == Init /\ [][Next]_vars

\* The sliding-window program alone, on timestamps of every tenth of a
\* second, in any order.
FineInit ==
    \E r \in FineRates, w \in Windows : Construct(r, w) /\ exclusion = TRUE

FineRequest(requestTime) ==
    /\ Len(calls) < MaxFineCalls
    /\ calls' = Append(calls, requestTime)
    /\ SWAllowRequest(requestTime)
    /\ UNCHANGED lbVars
    /\ UNCHANGED concVars

FineNext == \E requestTime \in FineTimes : FineRequest(requestTime)

SpecFine == FineInit /\ [][FineNext]_vars

\* The constructors take any int and any time.Duration: they hold no check.
\* The sliding-window program on a limiter built from any such pair.
AnyRates == (-1)..MaxFineRate
AnyWindows == {-HalfSecond, 0} \cup Windows

UncheckedInit ==
    \E r \in AnyRates, w \in AnyWindows : Construct(r, w) /\ exclusion = TRUE

SpecUnchecked == UncheckedInit /\ [][FineNext]_vars

----------------------------------------------------------------------------
(* The scan of the map, key by key *)

\* for timestamp, count := range rl.requests: the range visits every key
\* once, in an order the runtime chooses anew for each loop.
Orders(keys) ==
    {order \in [1..Cardinality(keys) -> keys] :
        \A i, j \in 1..Cardinality(keys) : i # j => order[i] # order[j]}

\* delete(rl.requests, timestamp)
Delete(reqs, timestamp) == [ts \in DOMAIN reqs \ {timestamp} |-> reqs[ts]]

\* The loop of AllowRequest run over the keys in the given order: the map
\* and currentCount when the loop ends.
RECURSIVE ScanLoopOverwrites(_, _, _, _)
ScanLoopOverwrites(reqs, order, start, count) ==
    IF order = <<>> THEN [requests |-> reqs, currentCount |-> count]
    ELSE IF Expired(Head(order), start)
         THEN ScanLoopOverwrites(Delete(reqs, Head(order)), Tail(order), start,
                  count)
         ELSE ScanLoopOverwrites(reqs, Tail(order), start, reqs[Head(order)])
RECURSIVE ScanLoop(_, _, _, _)
ScanLoop(reqs, order, start, count) ==
    IF order = <<>> THEN [requests |-> reqs, currentCount |-> count]
    ELSE IF Expired(Head(order), start)
         THEN ScanLoop(Delete(reqs, Head(order)), Tail(order), start, count)
         ELSE ScanLoop(reqs, Tail(order), start, count + reqs[Head(order)])

\* AllowRequest with the loop run in the given order: the map it leaves and
\* what it returns.
ScanAllowRequest(reqs, order, requestTime, windowDuration, r) ==
    LET scanned == ScanLoop(reqs, order,
                            startOfWindow(requestTime, windowDuration), 0)
    IN  IF WindowNotFull(scanned.currentCount, r)
        THEN [requests |-> Increment(scanned.requests,
                                     requestTimeSecond(requestTime)),
              allowed |-> TRUE]
        ELSE [requests |-> scanned.requests, allowed |-> FALSE]

\* One timestamp given to two limiters of the same rate and windowDuration,
\* each scanning its map in an order of its own.
ScanRequest(requestTime) ==
    /\ Len(calls) < MaxScanCalls
    /\ calls' = Append(calls, requestTime)
    /\ \E order \in Orders(DOMAIN requests),
          replicaOrder \in Orders(DOMAIN replica.requests) :
          LET first == ScanAllowRequest(requests, order, requestTime,
                                        swWindowDuration, rate)
              second == ScanAllowRequest(replica.requests, replicaOrder,
                                         requestTime, swWindowDuration, rate)
          IN  /\ requests' = first.requests
              /\ swResults' = Append(swResults, first.allowed)
              /\ replica' = [requests |-> second.requests,
                             results |-> Append(replica.results, second.allowed),
                             visited |-> Len(replicaOrder)]
    /\ UNCHANGED <<rate, swWindowDuration, callers, exclusion>>
    /\ UNCHANGED lbVars

ScanNext == \E requestTime \in Times : ScanRequest(requestTime)

SpecScan == Init /\ [][ScanNext]_vars

----------------------------------------------------------------------------
(* Goroutines that share one sliding-window limiter *)

\* The callers that are inside AllowRequest.
Inside == {id \in CallerIds : callers[id].pc # "idle"}

\* Lines 28-40 of AllowRequest run by one caller: requestTimeSecond,
\* startOfWindow, and the loop that deletes the expired buckets and sums the
\* others into the caller's currentCount.  With exclusion the caller first
\* locks the mutex, which no caller inside the call has released.
Scan(id, requestTime) ==
    /\ callers[id].pc = "idle"
    /\ Len(calls) + Cardinality(Inside) < MaxConcurrentCalls
    /\ exclusion => Inside = {}
    /\ LET start == startOfWindow(requestTime, swWindowDuration)
       IN  /\ requests' = Purge(requests, start)
           /\ callers' = [callers EXCEPT ![id] =
                             [pc |-> "decide", requestTime |-> requestTime,
                              currentCount |-> currentCount(requests, start)]]
    /\ UNCHANGED <<rate, swWindowDuration, swResults, calls, replica, exclusion>>
    /\ UNCHANGED lbVars

\* Lines 43-49 of AllowRequest run by the same caller, on the currentCount
\* it summed: the increment and the return (and the unlock).
Decide(id) ==
    /\ callers[id].pc = "decide"
    /\ LET allowed == WindowNotFull(callers[id].currentCount, rate)
       IN  /\ requests' =
                 IF allowed
                 THEN Increment(requests, requestTimeSecond(callers[id].requestTime))
                 ELSE requests
           /\ swResults' = Append(swResults, allowed)
    /\ calls' = Append(calls, callers[id].requestTime)
    /\ callers' = [callers EXCEPT ![id] =
                      [pc |-> "idle", requestTime |-> 0, currentCount |-> 0]]
    /\ UNCHANGED <<rate, swWindowDuration, replica, exclusion>>
    /\ UNCHANGED lbVars

\* Two goroutines inside the call use the map with no lock: a data race.
\* The Go runtime may detect it and end the process (fatal error:
\* concurrent map writes); otherwise the statements interleave as above.
Crash ==
    /\ ~exclusion
    /\ Cardinality(Inside) >= 2
    /\ callers' = [id \in CallerIds |->
                     [pc |-> "crashed", requestTime |-> 0, currentCount |-> 0]]
    /\ UNCHANGED <<rate, swWindowDuration, requests, swResults, calls, replica,
                   exclusion>>
    /\ UNCHANGED lbVars

ConcurrentInit ==
    \E r \in ConcurrentRates, w \in Windows, locked \in BOOLEAN :
        Construct(r, w) /\ exclusion = locked

ConcurrentNext ==
    \/ \E id \in CallerIds, requestTime \in Times : Scan(id, requestTime)
    \/ \E id \in CallerIds : Decide(id)
    \/ Crash

SpecConcurrent == ConcurrentInit /\ [][ConcurrentNext]_vars

----------------------------------------------------------------------------
(* Properties *)

NumCalls == Len(calls)

\* The timestamps never go back.
InOrder == \A i \in 1..(NumCalls - 1) : calls[i] <= calls[i + 1]

\* The calls the sliding-window limiter admitted, by position.
SWAdmitted == {i \in 1..Len(swResults) : swResults[i]}

\* The admitted calls whose timestamps lie in the closed interval [from, to].
SWAdmittedIn(from, to) == {i \in SWAdmitted : from <= calls[i] /\ calls[i] <= to}

\* Every closed interval of width windowDuration holds at most rate
\* admitted timestamps.
QuotaBound ==
    \A from \in 0..(HalfSecond * MaxHalfSeconds) :
        Cardinality(SWAdmittedIn(from, from + swWindowDuration)) <= rate

\* C1 (as stated): for any sequence of calls, in any order, the number of
\* admitted calls whose timestamps fall within one windowDuration-wide
\* interval never exceeds rate.
C1_QuotaBoundAnyOrder == QuotaBound

\* C1 (amended): when the timestamps of the calls never go back, the number
\* of admitted calls whose timestamps fall within one windowDuration-wide
\* interval never exceeds rate.
C1_QuotaBoundInOrder == InOrder => QuotaBound

\* A run in order in which a call was denied because the window that ends at
\* its timestamp already held rate admitted calls.
C1_Witness ==
    /\ InOrder
    /\ rate >= 2
    /\ \E i \in 1..NumCalls :
          /\ ~swResults[i]
          /\ Cardinality(SWAdmittedIn(calls[i] - swWindowDuration, calls[i])) = rate
          /\ \E j \in SWAdmitted : j > i

OneTenth == TicksPerSecond \div 10

\* The three calls of the expiry example: t0, t0 + 0.5 s, t0 + 1.1 s.
ExpiryExample(n) ==
    /\ rate = 1
    /\ swWindowDuration = TicksPerSecond
    /\ NumCalls >= n
    /\ n >= 2 => calls[2] = calls[1] + HalfSecond
    /\ n >= 3 => calls[3] = calls[1] + TicksPerSecond + OneTenth

\* With rate = 1: call 1 is the only admitted call before the last call.
OnlyFirstAdmitted ==
    /\ rate = 1
    /\ NumCalls >= 2
    /\ SWAdmitted \cap 1..(NumCalls - 1) = {1}

\* C2 (as stated): rate = 1, windowDuration = 1 s: t0 is admitted,
\* t0 + 0.5 s is denied and t0 + 1.1 s is admitted, for every t0; and with
\* rate = 1 a call more than windowDuration after the only admitted call is
\* admitted.
C2_ExpiryAsStated ==
    /\ ExpiryExample(1) => swResults[1]
    /\ ExpiryExample(2) => ~swResults[2]
    /\ ExpiryExample(3) => swResults[3]
    /\ (OnlyFirstAdmitted /\ calls[NumCalls] > calls[1] + swWindowDuration)
          => swResults[NumCalls]

\* C2 (amended): rate = 1, windowDuration = 1 s: t0 is admitted, t0 + 0.5 s
\* is denied, and t0 + 1.1 s is admitted exactly when the sub-second part of
\* t0 is at least 0.9 s (the start of the window is cut to a whole second);
\* and with rate = 1 a call at least windowDuration + 1 s after the only
\* admitted call is admitted.
C2_ExpiryBoundary ==
    /\ ExpiryExample(1) => swResults[1]
    /\ ExpiryExample(2) => ~swResults[2]
    /\ ExpiryExample(3) =>
          (swResults[3] <=> calls[1] % TicksPerSecond >= TicksPerSecond - OneTenth)
    /\ (OnlyFirstAdmitted
          /\ calls[NumCalls] >= calls[1] + swWindowDuration + TicksPerSecond)
          => swResults[NumCalls]

\* The example was run from a t0 with a sub-second part, and its third call
\* was denied.
C2_Witness ==
    /\ ExpiryExample(3)
    /\ NumCalls = 3
    /\ calls[1] % TicksPerSecond = HalfSecond
    /\ swResults = <<TRUE, FALSE, FALSE>>

\* Every call so far has its timestamp in the same whole second.
SameSecond == \A i \in 1..NumCalls : Unix(calls[i]) = Unix(calls[1])

\* C3: on a fresh limiter with windowDuration >= 1 s, when every call has
\* its timestamp in the same whole second, exactly the first rate calls
\* return true and every later call returns false.
C3_ExactQuota ==
    (swWindowDuration >= TicksPerSecond /\ SameSecond)
        => \A i \in 1..NumCalls : swResults[i] <=> i <= rate

\* rate = 3 and windowDuration = 1 s: true, true, true, false, with two
\* different timestamps of the same second.
C3_Witness ==
    /\ rate = 3
    /\ swWindowDuration = TicksPerSecond
    /\ SameSecond
    /\ \E i \in 1..NumCalls : calls[i] # calls[1]
    /\ NumCalls >= 4
    /\ SubSeq(swResults, 1, 4) = <<TRUE, TRUE, TRUE, FALSE>>

\* C4: a limiter of either kind constructed with rate 0 returns false from
\* every call, whatever the timestamps and their order.
C4_ZeroRate ==
    rate = 0 =>
        /\ \A i \in 1..Len(swResults) : ~swResults[i]
        /\ \A i \in 1..Len(lbResults) : ~lbResults[i]

\* Three calls or more on limiters of rate 0, with a timestamp that goes back.
C4_Witness ==
    /\ rate = 0
    /\ capacity = 0
    /\ NumCalls >= 3
    /\ ~InOrder
    /\ Len(swResults) = NumCalls
    /\ Len(lbResults) = NumCalls

\* The first n calls came at the same instant.
SameInstant(n) == \A i \in 1..n : calls[i] = calls[1]

\* C5: on a fresh leaky bucket with rate r >= 1 and window W, r calls at the
\* same instant t0 all return true, one more call at t0 returns false, and
\* a following call at t0 + W returns true.
C5_BurstThenDrain ==
    capacity >= 1 =>
        \A n \in 1..NumCalls :
            /\ (n <= capacity /\ SameInstant(n)) => lbResults[n]
            /\ (n = capacity + 1 /\ SameInstant(n)) => ~lbResults[n]
            /\ (n = capacity + 2 /\ SameInstant(n - 1)
                    /\ calls[n] = calls[1] + lbWindowDuration) => lbResults[n]

\* rate = 2: true, true, false at t0 > 0, then true at t0 + W.
C5_Witness ==
    /\ capacity = 2
    /\ NumCalls = 4
    /\ calls[1] > 0
    /\ SameInstant(3)
    /\ calls[4] = calls[1] + lbWindowDuration
    /\ lbResults = <<TRUE, TRUE, FALSE, TRUE>>

\* The last leaky-bucket call returned true.
LBLastAdmitted == lbResults # <<>> /\ lbResults[Len(lbResults)]

\* C6 (as stated): immediately after every leaky-bucket call that returns
\* true, 0 <= current < capacity.
C6_BelowCapacityAfterAdmission ==
    LBLastAdmitted => (0 <= current /\ current < capacity * lbWindowDuration)

\* C6 (amended): immediately after every leaky-bucket call that returns
\* true, 1 <= current <= capacity: the fill level may equal capacity.
C6_AtMostCapacityAfterAdmission ==
    LBLastAdmitted =>
        (lbWindowDuration <= current /\ current <= capacity * lbWindowDuration)

\* An admission that filled the bucket to capacity from a level that was
\* not a whole number before the leak.
C6_Witness ==
    /\ LBLastAdmitted
    /\ capacity >= 2
    /\ current = capacity * lbWindowDuration
    /\ \E i \in 1..NumCalls : calls[i] % TicksPerSecond # 0

\* C7: after every leaky-bucket call, allowed or denied, for any sequence
\* of timestamps, 0 <= current <= capacity.
C7_FillRange == 0 <= current /\ current <= capacity * lbWindowDuration

\* C8: for two consecutive leaky-bucket calls, the fill level the second
\* call tests is never greater than the fill level the first call left, and
\* it is that level less (elapsed/windowDuration)*capacity, floored at 0.
C8_NonGrowth ==
    [][Len(lbResults') > Len(lbResults) =>
          /\ lbTested' <= current
          /\ lbTested' = Clamp(current - (lastUpdate' - lastUpdate) * capacity)]_vars

\* The last sliding-window call returned false.
SWLastDenied == swResults # <<>> /\ ~swResults[Len(swResults)]

\* C9: whenever the sliding-window AllowRequest returns false, the bucket
\* mapping after the call is the mapping before the call.
C9_DenialLeavesBuckets == [][SWLastDenied' /\ Len(swResults') > Len(swResults)
                                => requests' = requests]_vars

\* A denied call whose timestamp lies more than windowDuration away from
\* an admitted call (before or after it), with buckets in the mapping.
C9_Witness ==
    /\ SWLastDenied
    /\ DOMAIN requests # {}
    /\ \E i \in SWAdmitted :
          \/ calls[i] + swWindowDuration < calls[NumCalls]
          \/ calls[NumCalls] + swWindowDuration < calls[i]

\* ceil(windowDuration / 1s) + 1
MemoryBound == Ceil(swWindowDuration, TicksPerSecond) + 1

\* C10 (as stated): after any call, in any sequence of calls, the bucket
\* mapping holds at most ceil(windowDuration / 1s) + 1 entries.
C10_MemoryBoundAnyOrder == Cardinality(DOMAIN requests) <= MemoryBound

\* C10 (amended): after any call of a sequence whose timestamps never go
\* back, the bucket mapping holds at most ceil(windowDuration / 1s) + 1
\* entries.
C10_MemoryBoundInOrder == InOrder => Cardinality(DOMAIN requests) <= MemoryBound

\* An in-order run that has purged a bucket and holds as many buckets as the
\* bound allows.
C10_Witness ==
    /\ InOrder
    /\ Cardinality(DOMAIN requests) = MemoryBound
    /\ \E i \in SWAdmitted : requestTimeSecond(calls[i]) \notin DOMAIN requests

\* The calls the leaky-bucket limiter admitted, by position.
LBAdmitted == {i \in 1..Len(lbResults) : lbResults[i]}

\* The admitted leaky-bucket calls with timestamps in [from, to].
LBAdmittedIn(from, to) == {i \in LBAdmitted : from <= calls[i] /\ calls[i] <= to}

\* C13: over-admission of the leaky bucket is reachable with timestamps in
\* order.  Rate calls at one instant t0 fill a fresh bucket; a next call at
\* t, t0 < t <= t0 + windowDuration, by which at least one whole request
\* has leaked, is admitted although the window [t0, t0 + windowDuration]
\* already holds rate admitted calls.
C13_BurstOverAdmits ==
    (/\ capacity >= 1
     /\ NumCalls >= capacity + 1
     /\ SameInstant(capacity)
     /\ calls[capacity + 1] > calls[1]
     /\ calls[capacity + 1] <= calls[1] + lbWindowDuration
     /\ (calls[capacity + 1] - calls[1]) * capacity >= lbWindowDuration)
        => /\ lbResults[capacity + 1]
           /\ Cardinality(LBAdmittedIn(calls[1], calls[1] + lbWindowDuration))
                 > capacity

\* Timestamps in order, and more than rate admitted calls inside one window
\* that closes before the window duration has passed.
C13_Witness ==
    /\ InOrder
    /\ capacity >= 2
    /\ \E i \in LBAdmitted :
          /\ calls[NumCalls] < calls[i] + lbWindowDuration
          /\ Cardinality(LBAdmittedIn(calls[i], calls[i] + lbWindowDuration))
                > capacity

\* C14 (as stated): after every sliding-window call the mapping holds no
\* bucket whose second lies strictly before requestTime - windowDuration,
\* the exact difference.
C14_PurgedToExactCutoff ==
    NumCalls >= 1 =>
        \A timestamp \in DOMAIN requests :
            ~(timestamp * TicksPerSecond < calls[NumCalls] - swWindowDuration)

\* C14 (amended): after every sliding-window call the mapping holds no
\* bucket whose second lies strictly before the whole second that contains
\* requestTime - windowDuration.
C14_PurgedToCutoffSecond ==
    NumCalls >= 1 =>
        \A timestamp \in DOMAIN requests :
            ~(timestamp < (calls[NumCalls] - swWindowDuration) \div TicksPerSecond)

\* A call whose cutoff has a sub-second part, that deleted one bucket and
\* kept the bucket of the second in which its cutoff lies.
C14_Witness ==
    /\ NumCalls >= 1
    /\ (calls[NumCalls] - swWindowDuration) % TicksPerSecond # 0
    /\ \E i \in SWAdmitted : requestTimeSecond(calls[i]) \notin DOMAIN requests
    /\ \E timestamp \in DOMAIN requests :
          timestamp * TicksPerSecond < calls[NumCalls] - swWindowDuration

\* C15: a leaky-bucket call returns true exactly when ceil(d) < capacity,
\* d = max(0, current - ((requestTime - lastUpdate)/windowDuration)*capacity);
\* on true the fill level becomes d + 1, on false d.
C15_DecisionRule ==
    [][Len(lbResults') > Len(lbResults) =>
        LET requestTime == calls'[Len(calls')]
            drained == current - (requestTime - lastUpdate) * capacity
            d == IF drained > 0 THEN drained ELSE 0
            admit == \E whole \in 0..(capacity - 1) : d <= whole * lbWindowDuration
        IN  /\ lbResults'[Len(lbResults')] <=> admit
            /\ current' = IF admit THEN d + lbWindowDuration ELSE d]_vars

\* Both outcomes on a level that is not a whole number: one call admitted
\* and one denied.
C15_Witness ==
    /\ \E i \in LBAdmitted : i > 1 /\ calls[i] % TicksPerSecond # 0
    /\ ~lbResults[Len(lbResults)]
    /\ lbTested % lbWindowDuration # 0

\* C16: after every leaky-bucket call, denied calls and calls with an
\* earlier timestamp included, lastUpdate is that call's requestTime.
C16_ClockFollowsCall == Len(lbResults) >= 1 => lastUpdate = calls[Len(lbResults)]

\* A denied call with a timestamp earlier than the call before it.
C16_Witness ==
    /\ NumCalls >= 2
    /\ ~lbResults[NumCalls]
    /\ calls[NumCalls] < calls[NumCalls - 1]
    /\ lastUpdate = calls[NumCalls]

\* C18: after every sliding-window call the counts of all buckets sum to at
\* most rate, and every bucket holds at least 1.
C18_StoredTotal ==
    /\ SumCounts(requests, DOMAIN requests) <= rate
    /\ \A timestamp \in DOMAIN requests : requests[timestamp] >= 1

\* Timestamps out of order, two buckets or more, the stored total at rate.
C18_Witness ==
    /\ ~InOrder
    /\ Cardinality(DOMAIN requests) >= 2
    /\ SumCounts(requests, DOMAIN requests) = rate
    /\ SWLastDenied

\* C19: with timestamps in order, two admitted sliding-window calls with
\* rate - 1 admitted calls between them lie strictly more than
\* windowDuration apart.
C19_SpacingInOrder ==
    (InOrder /\ rate >= 1) =>
        \A i, j \in SWAdmitted :
            (i < j /\ Cardinality({k \in SWAdmitted : i < k /\ k < j}) = rate - 1)
                => calls[j] - calls[i] > swWindowDuration

\* In order, rate >= 2: such a pair exists, with a denied call between.
C19_Witness ==
    /\ InOrder
    /\ rate >= 2
    /\ \E i, j \in SWAdmitted :
          /\ i < j
          /\ Cardinality({k \in SWAdmitted : i < k /\ k < j}) = rate - 1
          /\ \E k \in i..j : ~swResults[k]

\* C20: with timestamps in order, every closed interval of width
\* windowDuration holds at most 2 * rate admitted leaky-bucket calls.
C20_BurstCeilingInOrder ==
    InOrder =>
        \A from \in 0..(HalfSecond * MaxHalfSeconds) :
            Cardinality(LBAdmittedIn(from, from + lbWindowDuration)) <= 2 * capacity

\* In order, an interval that holds exactly 2 * rate admitted calls.
C20_Witness ==
    /\ InOrder
    /\ capacity >= 1
    /\ \E i \in LBAdmitted :
          Cardinality(LBAdmittedIn(calls[i], calls[i] + lbWindowDuration))
              = 2 * capacity

\* C12: a limiter with a negative rate or a non-positive windowDuration is
\* rejected at construction: no such limiter ever serves an AllowRequest
\* call.
C12_ConstructionValidated ==
    NumCalls >= 1 => (rate >= 0 /\ swWindowDuration > 0)

\* C11: two fresh limiters of the same rate and windowDuration, fed the
\* same timestamps in the same order, return the same decision at every
\* position, whatever the order in which each scan visits the map.
C11_Determinism == replica.results = swResults

\* The last call scanned two buckets or more (in every pair of orders) and
\* deleted one; the two limiters have answered alike, with both answers seen.
C11_Witness ==
    /\ replica.visited >= 2
    /\ Cardinality(DOMAIN requests) < replica.visited
    /\ replica.results = swResults
    /\ \E i, j \in 1..Len(swResults) : swResults[i] /\ ~swResults[j]

\* More than rate admitted calls carry the same second-timestamp.
OverAdmittedSecond ==
    \E i \in SWAdmitted :
        Cardinality({j \in SWAdmitted :
            requestTimeSecond(calls[j]) = requestTimeSecond(calls[i])}) > rate

\* C17 (as stated, second half): when every AllowRequest call is one atomic
\* step, no state has more than rate admitted calls of one second.
C17_AtomicNeverOverAdmits == exclusion => ~OverAdmittedSecond

\* C17 (amended): callers that interleave inside AllowRequest can reach a
\* state with more than rate admitted calls of one second (the witness);
\* when every call is one atomic step and the timestamps of the calls never
\* go back, no such state is reached.
C17_AtomicInOrderNeverOverAdmits ==
    (exclusion /\ InOrder) => ~OverAdmittedSecond

\* No mutex, timestamps in order, every call returned, and more than rate
\* admitted calls of one second.
C17_Witness ==
    /\ ~exclusion
    /\ InOrder
    /\ rate >= 1
    /\ Inside = {}
    /\ OverAdmittedSecond

====
